---- MODULE Spec2Model ----
(***************************************************************************)
(* A state-machine model of src/src/App.tsx: the texture option list and   *)
(* the active selection (Selection/Upload State), the two storage slots    *)
(* (sessionStorage "customTextures", localStorage "curtainTransform"), the *)
(* texture loads behind useLoader, the texture configuration effect and    *)
(* the curtain placement.                                                  *)
(*                                                                         *)
(* React state is modelled by its cells.  An update made outside a         *)
(* transition is applied to the cell by the action of its handler; the     *)
(* render that follows commits (and runs the effects) in the same action   *)
(* when the texture of textureUrl is available, and otherwise in the       *)
(* action of the load that makes it available, because App itself          *)
(* suspends in useLoader (line 261).  setTextureUrl inside                 *)
(* startTransition (lines 160-164) is kept in pendingUrl until the         *)
(* transition render can commit.                                           *)
(***************************************************************************)
EXTENDS Integers, Sequences, FiniteSets, TLC

\* ---------------------------------------------------------------- bounds
MaxCustom == 2      \* custom entries the uploads may bring the list to
MaxRepeat == 2      \* the repeat sliders range over 1..MaxRepeat
MaxCoord  == 1      \* gizmo coordinates range over 0..MaxCoord

\* ------------------------------------------------------------- constants
Url1 == "/assets/textures/texture1.jpg"
Url2 == "/assets/textures/texture2.jpg"
Url3 == "/assets/textures/texture3.jpg"
Url4 == "/assets/textures/texture4.jpg"

defaultTextures ==
  << [label |-> "Texture 1", url |-> Url1, custom |-> FALSE],
     [label |-> "Texture 2", url |-> Url2, custom |-> FALSE],
     [label |-> "Texture 3", url |-> Url3, custom |-> FALSE],
     [label |-> "Texture 4", url |-> Url4, custom |-> FALSE] >>

\* what FileReader.readAsDataURL yields for the files a user may pick
DataUrls == {"data:image/png;base64,AAAA", "data:image/png;base64,BBBB"}
Files == { [name |-> "x.png", dataUrl |-> "data:image/png;base64,AAAA"],
           [name |-> "y.png", dataUrl |-> "data:image/png;base64,BBBB"] }

BuiltinUrls == {Url1, Url2, Url3, Url4}
Urls == BuiltinUrls \cup DataUrls

NoUrl == "<no transition>"

\* ------------------------------------------------------------------ JSON
\* A JSON text is a sequence of tokens; JSON.stringify writes it and
\* JSON.parse reads it back or throws.
Punct(s) == [k |-> "punct", s |-> s, n |-> 0]
Key(s)   == [k |-> "key",   s |-> s, n |-> 0]
Str(s)   == [k |-> "str",   s |-> s, n |-> 0]
Num(n)   == [k |-> "num",   s |-> "", n |-> n]
Bool(b)  == [k |-> "bool",  s |-> IF b THEN "true" ELSE "false", n |-> 0]

RECURSIVE Join(_)
Join(parts) ==
  IF parts = <<>> THEN <<>>
  ELSE IF Len(parts) = 1 THEN parts[1]
  ELSE parts[1] \o <<Punct(",")>> \o Join(Tail(parts))

StringifyOption(t) ==
  <<Punct("{"), Key("label"), Str(t.label), Punct(","),
    Key("url"), Str(t.url), Punct(","),
    Key("custom"), Bool(t.custom), Punct("}")>>

StringifyOptions(list) ==
  <<Punct("[")>> \o Join([i \in 1..Len(list) |-> StringifyOption(list[i])])
                 \o <<Punct("]")>>

\* position is [x, y, z]; rotation is what Euler.toArray gave
StringifyNumbers(a) ==
  <<Punct("[")>> \o Join([i \in 1..Len(a) |-> <<Num(a[i])>>]) \o <<Punct("]")>>

StringifyEuler(a) ==
  <<Punct("[")>>
    \o Join([i \in 1..Len(a) |-> IF i <= 3 THEN <<Num(a[i])>> ELSE <<Str(a[i])>>])
    \o <<Punct("]")>>

StringifyTransform(t) ==
  <<Punct("{"), Key("position")>> \o StringifyNumbers(t.position)
    \o <<Punct(","), Key("rotation")>> \o StringifyEuler(t.rotation)
    \o <<Punct("}")>>

SyntaxError == [ok |-> FALSE, v |-> <<>>, rest |-> <<>>]
Parsed(v, rest) == [ok |-> TRUE, v |-> v, rest |-> rest]

RECURSIVE ParseValue(_), ParseElements(_, _), ParseMembers(_, _, _)
ParseValue(t) ==
  IF t = <<>> THEN SyntaxError
  ELSE LET h == Head(t) IN
    IF h.k = "str" THEN Parsed(h.s, Tail(t))
    ELSE IF h.k = "num" THEN Parsed(h.n, Tail(t))
    ELSE IF h.k = "bool" THEN Parsed(h.s = "true", Tail(t))
    ELSE IF h = Punct("[") THEN
      IF Len(t) >= 2 /\ t[2] = Punct("]") THEN Parsed(<<>>, SubSeq(t, 3, Len(t)))
      ELSE ParseElements(Tail(t), <<>>)
    ELSE IF h = Punct("{") THEN
      IF Len(t) >= 2 /\ t[2].k = "key" THEN
        LET first == ParseValue(SubSeq(t, 3, Len(t))) IN
          IF first.ok THEN ParseMembers(first.rest, t[2].s :> first.v, {t[2].s})
          ELSE SyntaxError
      ELSE SyntaxError
    ELSE SyntaxError

\* after an element: "," and another element, or "]"
ParseElements(t, acc) ==
  LET e == ParseValue(t) IN
    IF ~e.ok \/ e.rest = <<>> THEN SyntaxError
    ELSE IF Head(e.rest) = Punct("]") THEN Parsed(Append(acc, e.v), Tail(e.rest))
    ELSE IF Head(e.rest) = Punct(",") THEN ParseElements(Tail(e.rest), Append(acc, e.v))
    ELSE SyntaxError

\* after a member: "," and another member, or "}"
ParseMembers(t, obj, keys) ==
  IF t = <<>> THEN SyntaxError
  ELSE IF Head(t) = Punct("}") THEN Parsed(obj, Tail(t))
  ELSE IF Head(t) = Punct(",") /\ Len(t) >= 2 /\ t[2].k = "key" THEN
    LET m == ParseValue(SubSeq(t, 3, Len(t))) IN
      IF m.ok
      THEN ParseMembers(m.rest, (t[2].s :> m.v) @@ obj, keys \cup {t[2].s})
      ELSE SyntaxError
  ELSE SyntaxError

\* JSON.parse: the whole text must be one value
JSONparse(text) ==
  LET r == ParseValue(text) IN
    IF r.ok /\ r.rest = <<>> THEN r ELSE SyntaxError

\* ------------------------------------------------------- storage slots
\* getItem returns null for a key that was never set
NoItem == [present |-> FALSE, text |-> <<>>]
Item(text) == [present |-> TRUE, text |-> text]
\* `if (stored)`: null and the empty string are falsy
Truthy(item) == item.present /\ item.text # <<>>


\* ----------------------------------------------------------------- state
VARIABLES
  phase,            \* "start": first render committed, mount effects due;
                    \* "mounted": mount effects run, their re-render due;
                    \* "running"; "crashed": an effect threw, tree unmounted
  textureOptions,   \* useState(defaultTextures), line 142
  textureUrl,       \* useState(defaultTextures[0].url), line 143
  pendingUrl,       \* the setTextureUrl of a transition not yet committed
  optionsDirty,     \* textureOptions was set since the last commit
  load,             \* useLoader's cache: url -> "idle" | "pending" | "loaded"
  texture,          \* the texture of the last committed render (line 261)
  texObj,           \* the fields of each url's texture object
  params,           \* the "Repeat" controls, lines 232-237
  sessionStorage,   \* the slot "customTextures"
  localStorage,     \* the slot "curtainTransform"
  curtainTransform, \* useState<Transform>, line 194
  group,            \* the object behind curtainRef: position and Euler rotation
  transformMode,    \* line 221
  op,               \* the last step taken: its name and the url it was about
  stale             \* an older select request overtaken by a newer one

vars == <<phase, textureOptions, textureUrl, pendingUrl, optionsDirty, load,
          texture, texObj, params, sessionStorage, localStorage,
          curtainTransform, group, transformMode, op, stale>>

selectionVars == <<textureOptions, textureUrl, pendingUrl, optionsDirty, load,
                   texture, sessionStorage>>
transformVars == <<localStorage, curtainTransform, group, transformMode>>

\* ------------------------------------------------------- texture objects
\* a texture as TextureLoader hands it over
NewTexture ==
  [encoding |-> "LinearEncoding", wrapS |-> "ClampToEdgeWrapping",
   wrapT |-> "ClampToEdgeWrapping", repeat |-> <<1, 1>>, needsUpdate |-> TRUE]

NoTexture == "<null>"

defaultParams ==
  [repeatX |-> 1, repeatY |-> 1, mirrorWrapX |-> FALSE, mirrorWrapY |-> FALSE]

\* the body of the texture configuration effect, lines 262-271
ConfigureTexture(objs, tex, par) ==
  IF tex # NoTexture
  THEN [objs EXCEPT ![tex] =
         [encoding |-> "sRGBEncoding",
          wrapS |-> IF par.mirrorWrapX THEN "MirroredRepeatWrapping"
                                       ELSE "RepeatWrapping",
          wrapT |-> IF par.mirrorWrapY THEN "MirroredRepeatWrapping"
                                       ELSE "RepeatWrapping",
          repeat |-> <<par.repeatX, par.repeatY>>,
          needsUpdate |-> TRUE]]
  ELSE objs

\* the effect with texture left out of its dependency list
TextureEffect_NoTextureDep(objs, oldTex, newTex, oldPar, newPar) ==
  IF newPar # oldPar
  THEN ConfigureTexture(objs, newTex, newPar)
  ELSE objs

\* the effect runs when one of [texture, mirrorWrapX, mirrorWrapY, repeatX,
\* repeatY] differs from the previous commit
TextureEffect(objs, oldTex, newTex, oldPar, newPar) ==
  IF newTex # oldTex \/ newPar # oldPar
  THEN ConfigureTexture(objs, newTex, newPar)
  ELSE objs

\* ------------------------------------------------------------ the loader
\* the empty url has no image behind it
Status(l, u) == IF u \in DOMAIN l THEN l[u] ELSE "error"

\* useLoader starts a load for a url it has not seen and keeps every result
Request(l, u) ==
  IF u \in DOMAIN l /\ l[u] = "idle" THEN [l EXCEPT ![u] = "pending"] ELSE l

Suspended == Status(load, textureUrl) # "loaded"

\* --------------------------------------------------------------- effects
CustomOnly(list) == SelectSeq(list, LAMBDA tex : tex.custom)

\* the write effect without its filter
PersistCustom_All(list) == Item(StringifyOptions(list))

\* the sessionStorage write effect, lines 155-158
PersistCustom(list) == Item(StringifyOptions(CustomOnly(list)))

\* the group's props: position.set(...position), rotation.set(...rotation);
\* Euler.set keeps its order when none is passed
ApplyProps(g, ct) ==
  [position |-> <<ct.position[1], ct.position[2], ct.position[3]>>,
   rotation |-> <<ct.rotation[1], ct.rotation[2], ct.rotation[3],
                  IF Len(ct.rotation) >= 4 THEN ct.rotation[4]
                                           ELSE g.rotation[4]>>]

\* The render that follows a state change, with the effects of its commit.
\* o, u, p: the cells after the handler ran; l: the loader; par: the
\* controls; dirty: whether textureOptions was set.  The transition lane is
\* rendered with p as textureUrl and commits when p's texture is there.
Render(o, u, p, l, par, dirty) ==
  LET l1 == Request(l, u)
      ready == Status(l1, u) = "loaded"
      l2 == IF p # NoUrl THEN Request(l1, p) ELSE l1
      tready == ready /\ p # NoUrl /\ Status(l2, p) = "loaded"
      url2 == IF tready THEN p ELSE u
  IN  /\ textureOptions' = o
      /\ textureUrl' = url2
      /\ pendingUrl' = IF tready THEN NoUrl ELSE p
      /\ load' = l2
      /\ params' = par
      /\ IF ready
         THEN /\ texture' = url2
              /\ texObj' = TextureEffect(texObj, texture, url2, params, par)
              /\ sessionStorage' = IF dirty THEN PersistCustom(o)
                                            ELSE sessionStorage
              /\ optionsDirty' = FALSE
         ELSE /\ UNCHANGED <<texture, texObj, sessionStorage>>
              /\ optionsDirty' = dirty

\* ------------------------------------------------------------------ Init
zeroTransform == [position |-> <<0, 0, 0>>, rotation |-> <<0, 0, 0>>]

Custom(name, url) == [label |-> name, url |-> url, custom |-> TRUE]

\* what the session slot may hold when the page is opened
SessionInits ==
  { NoItem, Item(<<>>), Item(<<Punct("{")>>),
    Item(StringifyOptions(<<>>)),
    Item(StringifyOptions(<<Custom("x.png", "data:image/png;base64,AAAA")>>)),
    Item(StringifyOptions(<<Custom("x.png", "data:image/png;base64,AAAA"),
                            Custom("y.png", "data:image/png;base64,BBBB")>>)),
    Item(StringifyOptions(<<Custom("copy.jpg", Url1)>>)),
    Item(StringifyOptions(<<Custom("c1.jpg", Url1), Custom("c2.jpg", Url2),
                            Custom("c3.jpg", Url3), Custom("c4.jpg", Url4)>>)) }

\* what the durable slot may hold when the page is opened
LocalInits ==
  { NoItem, Item(<<>>), Item(<<Punct("{"), Key("position")>>),
    Item(StringifyTransform([position |-> <<1, 0, 1>>,
                             rotation |-> <<0, 1, 0, "XYZ">>])) }

\* the cells of a freshly loaded page once the first render is committed
initialLoad ==
  [u \in Urls |-> IF u = defaultTextures[1].url THEN "loaded" ELSE "idle"]
initialTextures == [u \in Urls |-> NewTexture]
initialGroup == [position |-> <<0, 0, 0>>, rotation |-> <<0, 0, 0, "XYZ">>]

Fresh ==
  /\ phase = "start"
  /\ textureOptions = defaultTextures
  /\ textureUrl = defaultTextures[1].url
  /\ pendingUrl = NoUrl
  /\ optionsDirty = FALSE
  /\ load = initialLoad
  /\ texture = defaultTextures[1].url
  /\ texObj = initialTextures
  /\ params = defaultParams
  /\ curtainTransform = zeroTransform
  /\ group = initialGroup
  /\ transformMode = "translate"
  /\ op = [name |-> "init", url |-> NoUrl]
  /\ stale = NoUrl

Init ==
  /\ Fresh
  /\ sessionStorage \in SessionInits
  /\ localStorage = NoItem


\* --------------------------------------------------------------- startup
\* The passive effects of the first commit, in declaration order: the read
\* of customTextures (146-152), the write of the custom subset (155-158,
\* over the textureOptions of the first render), the read of
\* curtainTransform (200-205) and the texture configuration (262-271).
\* JSON.parse has no try around it: a throw ends the effects and unmounts
\* the tree.
MountEffects(stored) ==
  /\ phase = "start"
  /\ LET readCustom == Truthy(stored)
         custom == JSONparse(stored.text)
         throw1 == readCustom /\ ~custom.ok
         saved == localStorage
         readSaved == Truthy(saved)
         transform == JSONparse(saved.text)
         throw3 == readSaved /\ ~transform.ok
     IN  IF throw1
         THEN /\ phase' = "crashed"
              /\ UNCHANGED <<selectionVars, transformVars, texObj, params>>
         ELSE IF throw3
         THEN /\ phase' = "crashed"
              /\ sessionStorage' = PersistCustom(textureOptions)
              /\ UNCHANGED <<textureOptions, textureUrl, pendingUrl,
                             optionsDirty, load, texture, transformVars,
                             texObj, params>>
         ELSE /\ phase' = IF readCustom \/ readSaved THEN "mounted" ELSE "running"
              /\ textureOptions' = IF readCustom THEN defaultTextures \o custom.v
                                                 ELSE textureOptions
              /\ optionsDirty' = readCustom
              /\ sessionStorage' = PersistCustom(textureOptions)
              /\ curtainTransform' = IF readSaved THEN transform.v
                                                  ELSE curtainTransform
              /\ texObj' = ConfigureTexture(texObj, texture, params)
              /\ UNCHANGED <<textureUrl, pendingUrl, load, texture, params,
                             localStorage, group, transformMode>>
  /\ op' = [name |-> "mount", url |-> NoUrl, stored |-> sessionStorage]
  /\ UNCHANGED stale

\* the effects with the write declared before the read
Mount_WriteFirst == MountEffects(PersistCustom(textureOptions))

\* the read effect is declared first and so sees the slot as the page found it
Mount == MountEffects(sessionStorage)

\* the render of the state the mount effects set, and its effects
Rerender ==
  /\ phase = "mounted"
  /\ phase' = "running"
  /\ Render(textureOptions, textureUrl, pendingUrl, load, params, optionsDirty)
  /\ group' = ApplyProps(group, curtainTransform)
  /\ op' = [name |-> "rerender", url |-> NoUrl]
  /\ UNCHANGED <<localStorage, curtainTransform, transformMode, stale>>

\* the page is loaded again: memory is lost, the storage slots stay
Reload ==
  /\ phase # "start"
  /\ phase' = "start"
  /\ textureOptions' = defaultTextures
  /\ textureUrl' = defaultTextures[1].url
  /\ pendingUrl' = NoUrl
  /\ optionsDirty' = FALSE
  /\ load' = initialLoad
  /\ texture' = defaultTextures[1].url
  /\ texObj' = initialTextures
  /\ params' = defaultParams
  /\ curtainTransform' = zeroTransform
  /\ group' = initialGroup
  /\ transformMode' = "translate"
  /\ op' = [name |-> "reload", url |-> NoUrl]
  /\ stale' = NoUrl
  /\ UNCHANGED <<sessionStorage, localStorage>>

\* ------------------------------------------------ Selection/Upload State
Listed(u) == \E i \in 1..Len(textureOptions) : textureOptions[i].url = u
Deletable(u) ==
  \E i \in 1..Len(textureOptions) :
      textureOptions[i].url = u /\ textureOptions[i].custom

\* lines 160-164: the radio of a listed option
handleTextureSelect(url) ==
  /\ phase = "running" /\ ~Suspended
  /\ Listed(url)
  /\ Render(textureOptions, textureUrl, url, load, params, optionsDirty)
  /\ stale' = IF /\ pendingUrl # NoUrl /\ pendingUrl # url
                 /\ load[pendingUrl] = "pending" /\ load[url] = "idle"
              THEN pendingUrl ELSE NoUrl
  /\ op' = [name |-> "select", url |-> url]
  /\ UNCHANGED <<phase, transformVars>>

\* an upload that skips a url already in the list
addCustomTexture_Dedup(tex) ==
  /\ phase = "running"
  /\ Len(CustomOnly(textureOptions)) < MaxCustom
  /\ Render(IF Listed(tex.url) THEN textureOptions
                               ELSE Append(textureOptions, tex),
            tex.url, NoUrl, load, params, TRUE)
  /\ stale' = NoUrl
  /\ op' = [name |-> "add", url |-> tex.url]
  /\ UNCHANGED <<phase, transformVars>>

\* lines 166-173, called by reader.onload (55-58) with a data url.  The
\* setTextureUrl is queued after a pending transition's and so decides the
\* value the transition render ends with.
addCustomTexture(tex) ==
  /\ phase = "running"
  /\ Len(CustomOnly(textureOptions)) < MaxCustom
  /\ Render(Append(textureOptions, tex), tex.url, NoUrl, load, params, TRUE)
  /\ stale' = NoUrl
  /\ op' = [name |-> "add", url |-> tex.url]
  /\ UNCHANGED <<phase, transformVars>>

\* a remove that leaves the selection alone
removeCustomTexture_KeepsSelection(url) ==
  /\ phase = "running" /\ ~Suspended
  /\ Deletable(url)
  /\ Render(SelectSeq(textureOptions, LAMBDA tex : tex.url # url),
            textureUrl, pendingUrl, load, params, TRUE)
  /\ stale' = NoUrl
  /\ op' = [name |-> "remove", url |-> url]
  /\ UNCHANGED <<phase, transformVars>>

\* lines 175-187, the Delete button of a custom option (377-392)
removeCustomTexture(url) ==
  /\ phase = "running" /\ ~Suspended
  /\ Deletable(url)
  /\ LET newOptions == SelectSeq(textureOptions, LAMBDA tex : tex.url # url)
     IN  IF textureUrl = url
         THEN Render(newOptions,
                     IF Len(newOptions) > 0 THEN newOptions[1].url ELSE "",
                     NoUrl, load, params, TRUE)
         ELSE Render(newOptions, textureUrl, pendingUrl, load, params, TRUE)
  /\ stale' = NoUrl
  /\ op' = [name |-> "remove", url |-> url]
  /\ UNCHANGED <<phase, transformVars>>

\* a settle that shows whatever texture arrived last
Settle_ShowsSettled(url) ==
  /\ phase = "running"
  /\ load[url] = "pending"
  /\ Render(textureOptions, url, pendingUrl,
            [load EXCEPT ![url] = "loaded"], params, optionsDirty)
  /\ op' = [name |-> "settle", url |-> url]
  /\ UNCHANGED <<phase, transformVars, stale>>

\* a texture request settles: the loader keeps the texture and the
\* suspended render is tried again
Settle(url) ==
  /\ phase = "running"
  /\ load[url] = "pending"
  /\ Render(textureOptions, textureUrl, pendingUrl,
            [load EXCEPT ![url] = "loaded"], params, optionsDirty)
  /\ op' = [name |-> "settle", url |-> url]
  /\ UNCHANGED <<phase, transformVars, stale>>

\* ------------------------------------------------- Transform Persistence
Coords == 0..MaxCoord

\* the gizmo moves or turns the group along one axis
Drag(axis, v) ==
  /\ phase = "running" /\ ~Suspended
  /\ IF transformMode = "translate"
     THEN /\ group.position[axis] # v
          /\ group' = [group EXCEPT !.position[axis] = v]
     ELSE /\ group.rotation[axis] # v
          /\ group' = [group EXCEPT !.rotation[axis] = v]
  /\ op' = [name |-> "drag", url |-> NoUrl]
  /\ UNCHANGED <<phase, selectionVars, texObj, params, localStorage,
                 curtainTransform, transformMode, stale>>

\* lines 222-224
toggleMode ==
  /\ phase = "running" /\ ~Suspended
  /\ transformMode' = IF transformMode = "translate" THEN "rotate"
                                                     ELSE "translate"
  /\ op' = [name |-> "toggle", url |-> NoUrl]
  /\ UNCHANGED <<phase, selectionVars, texObj, params, localStorage,
                 curtainTransform, group, stale>>

\* Vector3.toArray is [x, y, z]; Euler.toArray is [x, y, z, order]
Vector3ToArray(v) == <<v[1], v[2], v[3]>>
EulerToArray(e) == <<e[1], e[2], e[3], e[4]>>

\* lines 207-216
handleSaveTransform ==
  /\ phase = "running" /\ ~Suspended
  /\ LET pos == Vector3ToArray(group.position)
         rot == EulerToArray(group.rotation)
         transform == [position |-> pos, rotation |-> rot]
     IN  /\ localStorage' = Item(StringifyTransform(transform))
         /\ curtainTransform' = transform
         /\ group' = ApplyProps(group, transform)
  /\ op' = [name |-> "save", url |-> NoUrl]
  /\ UNCHANGED <<phase, selectionVars, texObj, params, transformMode, stale>>

\* ------------------------------------------------ Texture Parameter Sync
RepeatRange == 1..MaxRepeat

\* a "Repeat" control changes: App renders again and the effect runs
SetControls(par) ==
  /\ phase = "running" /\ ~Suspended
  /\ par # params
  /\ Render(textureOptions, textureUrl, pendingUrl, load, par, optionsDirty)
  /\ UNCHANGED <<phase, transformVars, stale>>

SetRepeatX(v) ==
  SetControls([params EXCEPT !.repeatX = v]) /\ op' = [name |-> "repeatX", url |-> NoUrl]
SetRepeatY(v) ==
  SetControls([params EXCEPT !.repeatY = v]) /\ op' = [name |-> "repeatY", url |-> NoUrl]
SetMirrorWrapX(b) ==
  SetControls([params EXCEPT !.mirrorWrapX = b]) /\ op' = [name |-> "mirrorX", url |-> NoUrl]
SetMirrorWrapY(b) ==
  SetControls([params EXCEPT !.mirrorWrapY = b]) /\ op' = [name |-> "mirrorY", url |-> NoUrl]

\* the renderer draws a frame and uploads the bound texture if it is dirty
RenderFrame ==
  /\ phase = "running" /\ ~Suspended
  /\ texObj[texture].needsUpdate
  /\ texObj' = [texObj EXCEPT ![texture].needsUpdate = FALSE]
  /\ op' = [name |-> "frame", url |-> NoUrl]
  /\ UNCHANGED <<phase, selectionVars, params, transformVars, stale>>

\* -------------------------------------------------------- specifications
\* the radios the user clicks
ClickUrls == {Url1, Url2} \cup DataUrls

Next ==
  \/ Mount
  \/ Rerender
  \/ Reload
  \/ \E u \in ClickUrls : handleTextureSelect(u)
  \/ \E file \in Files : addCustomTexture(Custom(file.name, file.dataUrl))
  \/ \E u \in Urls : removeCustomTexture(u)
  \/ \E u \in Urls : Settle(u)

Spec == Init /\ [][Next]_vars

InitTransform ==
  /\ Fresh
  /\ sessionStorage = NoItem
  /\ localStorage \in LocalInits

NextTransform ==
  \/ Mount
  \/ Rerender
  \/ Reload
  \/ \E axis \in 1..3, v \in Coords : Drag(axis, v)
  \/ toggleMode
  \/ handleSaveTransform

SpecTransform == InitTransform /\ [][NextTransform]_vars

\* the textures the parameter specification switches between
SwitchUrls == {Url1, Url2}

InitParams ==
  /\ Fresh
  /\ sessionStorage = NoItem
  /\ localStorage = NoItem

NextParams ==
  \/ Mount
  \/ \E u \in SwitchUrls : handleTextureSelect(u)
  \/ \E u \in SwitchUrls : Settle(u)
  \/ \E v \in RepeatRange : SetRepeatX(v)
  \/ \E v \in RepeatRange : SetRepeatY(v)
  \/ \E b \in BOOLEAN : SetMirrorWrapX(b)
  \/ \E b \in BOOLEAN : SetMirrorWrapY(b)
  \/ RenderFrame

SpecParams == InitParams /\ [][NextParams]_vars


\* ------------------------------------------------------------ properties
Live(u) == \E i \in 1..Len(textureOptions) : textureOptions[i].url = u

\* C1: in every reachable state the active selection textureUrl is the url
\* of an entry of the option list or the empty-string sentinel, also when a
\* select was pending while a remove or an add ran.
C1_SelectionIsLive == textureUrl = "" \/ Live(textureUrl)

\* C2: the four built-in entries are in the option list in every reachable
\* state, whatever the session slot held and whatever was removed.
C2_BuiltinsKept ==
  \A b \in 1..Len(defaultTextures) :
    \E i \in 1..Len(textureOptions) : textureOptions[i] = defaultTextures[b]

\* C3: a remove(url) step deletes exactly the entries whose url matches; if
\* url was the active selection the selection becomes the url of the first
\* remaining entry, or "" when none remains; otherwise it is unchanged.
C3_RemoveFallsBack ==
  [][op'.name = "remove" =>
       LET rest == SelectSeq(textureOptions, LAMBDA t : t.url # op'.url)
       IN  /\ textureOptions' = rest
           /\ textureUrl' = IF textureUrl = op'.url
                            THEN (IF rest = <<>> THEN "" ELSE rest[1].url)
                            ELSE textureUrl]_vars

C3_Witness ==
  /\ op.name = "remove"
  /\ textureOptions = <<>>
  /\ textureUrl = ""

\* C4: an add(option) step appends the option as the last entry, keeps the
\* entries before it as they were, removes no duplicate, and makes its url
\* the active selection in the same step.
C4_AddAppendsAndSelects ==
  [][op'.name = "add" =>
       /\ Len(textureOptions') = Len(textureOptions) + 1
       /\ SubSeq(textureOptions', 1, Len(textureOptions)) = textureOptions
       /\ textureOptions'[Len(textureOptions')].url = op'.url
       /\ textureOptions'[Len(textureOptions')].custom
       /\ textureUrl' = op'.url]_vars

C4_Witness ==
  /\ op.name = "add"
  /\ textureUrl = op.url
  /\ \E i, j \in 1..Len(textureOptions) :
       i < j /\ j = Len(textureOptions)
       /\ textureOptions[i].url = op.url /\ textureOptions[j].url = op.url

\* C5: the record save writes, and the placement a restart restores from
\* it, are the placement read at save time, position and rotation each a
\* triple of numbers.
NumberTriple(a) == Len(a) = 3 /\ \A i \in 1..3 : a[i] \in Int

C5_PlacementRoundTrip ==
  /\ op.name = "save" =>
       /\ localStorage = Item(StringifyTransform(curtainTransform))
       /\ NumberTriple(curtainTransform.position)
       /\ NumberTriple(curtainTransform.rotation)
  /\ (op.name = "rerender" /\ Truthy(localStorage)) =>
       /\ localStorage = Item(StringifyTransform(curtainTransform))
       /\ NumberTriple(curtainTransform.position)
       /\ NumberTriple(curtainTransform.rotation)

\* C6: a slot holding text that is not JSON never brings the application
\* down: the read is skipped and the defaults are used.
C6_MalformedIgnored == phase # "crashed"

\* C7: once the effect has run, the bound texture's wrapS, wrapT, repeat
\* and encoding are those the current controls give, whatever they were
\* before, and every step that changes the bound texture or a control
\* leaves the texture marked for upload.
C7_ParamsApplied ==
  /\ [](phase = "running" =>
         /\ texObj[texture].wrapS = (IF params.mirrorWrapX
                                     THEN "MirroredRepeatWrapping"
                                     ELSE "RepeatWrapping")
         /\ texObj[texture].wrapT = (IF params.mirrorWrapY
                                     THEN "MirroredRepeatWrapping"
                                     ELSE "RepeatWrapping")
         /\ texObj[texture].repeat = <<params.repeatX, params.repeatY>>
         /\ texObj[texture].encoding = "sRGBEncoding")
  /\ [][(phase' = "running" /\ (texture' # texture \/ params' # params))
          => texObj'[texture'].needsUpdate]_vars

C7_Witness ==
  /\ op = [name |-> "select", url |-> Url1]
  /\ texture = Url1
  /\ texObj[Url2].encoding = "sRGBEncoding"
  /\ params = [repeatX |-> 2, repeatY |-> 1,
               mirrorWrapX |-> TRUE, mirrorWrapY |-> FALSE]
  /\ texObj[Url1].wrapS = "MirroredRepeatWrapping"
  /\ texObj[Url1].wrapT = "RepeatWrapping"
  /\ texObj[Url1].repeat = <<2, 1>>
  /\ texObj[Url2].repeat = <<1, 1>>

\* C8: whenever no change of the option list awaits its commit, the session
\* slot holds the entries of the list with custom = true, in list order,
\* and no built-in entry.
C8_SlotIsCustomSubset ==
  (phase = "running" /\ ~optionsDirty) =>
    LET slot == JSONparse(sessionStorage.text)
        idx == {i \in 1..Len(textureOptions) : textureOptions[i].custom}
    IN  /\ sessionStorage.present /\ slot.ok
        /\ Len(slot.v) = Cardinality(idx)
        /\ \A k \in 1..Len(slot.v) :
             /\ slot.v[k].custom
             /\ \E i \in idx :
                  /\ Cardinality({j \in idx : j < i}) = k - 1
                  /\ slot.v[k].label = textureOptions[i].label
                  /\ slot.v[k].url = textureOptions[i].url

C8_Witness ==
  /\ phase = "running" /\ ~optionsDirty
  /\ op.name = "remove"
  /\ Len(textureOptions) = 5
  /\ textureOptions[5].custom
  /\ sessionStorage = Item(StringifyOptions(<<textureOptions[5]>>))

\* C9: when the session slot holds a sequence C at page load, the re-render
\* that follows the mount effects leaves the option list as the built-ins
\* followed by C, the first built-in selected and the slot holding C again,
\* although the slot was emptied in between.
C9_RestoreIsLossless ==
  /\ [](phase = "mounted" =>
          /\ op.name = "mount"
          /\ sessionStorage = Item(<<Punct("["), Punct("]")>>))
  /\ [][(phase = "mounted" /\ phase' = "running") =>
          LET C == JSONparse(op.stored.text).v
          IN  /\ Len(textureOptions') = 4 + Len(C)
              /\ \A i \in 1..4 : textureOptions'[i] = defaultTextures[i]
              /\ \A i \in 1..Len(C) : textureOptions'[4 + i] = C[i]
              /\ textureUrl' = Url1
              /\ sessionStorage' = op.stored]_vars

C9_Witness ==
  /\ phase = "running"
  /\ op.name = "rerender"
  /\ Len(textureOptions) = 6
  /\ textureOptions[5].custom /\ textureOptions[6].custom
  /\ sessionStorage = Item(StringifyOptions(<<textureOptions[5], textureOptions[6]>>))

\* the older of two outstanding select requests settles after the newer one
\* has settled and been committed
StaleSettles ==
  /\ stale # NoUrl
  /\ load[stale] = "pending" /\ load'[stale] = "loaded"
  /\ pendingUrl = NoUrl

\* C10 as stated: when the older request settles after the newer one, the
\* older texture is the one bound.
C10_LastResolvedWins == [][StaleSettles => texture' = stale]_vars

\* C10 as amended: when the older request settles after the newer one, the
\* texture of the newer request, the current selection, stays bound.
C10_LastRequestedWins ==
  [][StaleSettles =>
       /\ texture' = texture
       /\ texture' = textureUrl'
       /\ texture' # stale]_vars

C10_Witness ==
  /\ stale # NoUrl
  /\ op = [name |-> "settle", url |-> stale]
  /\ load[textureUrl] = "loaded"
  /\ texture = textureUrl
  /\ texture # stale

====
